---- MODULE Spec2Model ----
(***************************************************************************)
(* nagaoshi: long-press handling on a DOM element (src/src/index.ts).      *)
(*                                                                         *)
(* The model holds one target element and one Press Controller attached to *)
(* it by nagaoshi(): the closure state of that call (longPressTimeoutId,   *)
(* intervalId, isLongPress, isKeyDown), the timers it created through      *)
(* setTimeout / setInterval and the number of times it invoked action,     *)
(* onStart, onFinish and onCancel.  The element owns the listener list and *)
(* the aria-pressed attribute; the list also holds the six listeners of a  *)
(* second nagaoshi() call on the same element, whose closure shares        *)
(* nothing with the first and is not followed.                             *)
(* Time is a discrete clock; a timer fires once the clock has reached its  *)
(* due time, timers fire in (due, id) order, and an input event may be     *)
(* dispatched at any moment.                                               *)
(***************************************************************************)
EXTENDS Integers, FiniteSets, Sequences

\* ---------------------------------------------------------------- bounds
MaxTime == 4
MaxDelay == 2
MaxInterval == 2
MaxEvents == 3
MaxDispose == 2
MaxActions == 2

\* ------------------------------------------------------ program constants
DEFAULT_INTERVAL == 75
DEFAULT_DELAY == 1000

\* The closures that own listeners of the element: the controller followed
\* here, and a second nagaoshi() call on the same element.
Owners == {"self", "other"}

Delays == 0..MaxDelay
Intervals == 1..MaxInterval
Keys == {"Enter", " ", "a"}
EventTypes ==
  {"pointerdown", "pointerup", "pointerleave", "pointercancel", "keydown", "keyup"}

\* A null timer handle.
Null == 0

\* An optional numeric property of the options object: absent, or a number.
Undefined == [given |-> FALSE, value |-> 0]
Given(v) == [given |-> TRUE, value |-> v]

\* The options objects nagaoshi() is called with: interval and delay each
\* absent, negative, zero or positive.
OptionalDelays == {Undefined} \cup {Given(v) : v \in (-1)..MaxDelay}
OptionalIntervals == {Undefined} \cup {Given(v) : v \in (-1)..MaxInterval}

\* A destructuring default written with ||: a supplied 0 counts as absent.
withDefault_falsy(o, d) == IF o.given /\ o.value # 0 THEN o.value ELSE d

\* const { interval = DEFAULT_INTERVAL, delay = DEFAULT_DELAY } = options:
\* the default replaces an absent property only.
withDefault(o, d) == IF o.given THEN o.value ELSE d

VARIABLES
  now,          \* the clock of the timer subsystem
  options,      \* the options object nagaoshi() was called with
  delay,        \* the delay destructured from options
  interval,     \* the interval destructured from options
  listeners,    \* the element's listener list: <<event type, owning closure>>
  ariaPressed,  \* the element's aria-pressed attribute
  ctl,          \* the closure state of the nagaoshi() call
  hist,         \* what the controller's last handlers saw (observation only)
  nEvents,      \* number of input events dispatched on the element
  disposeCalls, \* number of calls of the cleanup function nagaoshi() returned
  amb,          \* the ambient detector: its watches, their timers, notifications
  ambHist       \* what the last pointer event saw of amb (observation only)

vars ==
  <<now, options, delay, interval, listeners, ariaPressed, ctl, hist, nEvents,
    disposeCalls, amb, ambHist>>

\* The state of one nagaoshi() call and its element / of the ambient detector.
ctlVars == <<options, delay, interval, listeners, ariaPressed, ctl, hist, disposeCalls>>
ambVars == <<amb, ambHist>>

\* ------------------------------------------------------ timer subsystem
Timer(id, kind, due) == [id |-> id, kind |-> kind, due |-> due]

\* setTimeout(cb, delay) / setInterval(cb, interval): a new pending timer with a
\* fresh id; the id is the handle returned to the caller.
schedule(c, kind, after) ==
  [c EXCEPT !.timers = @ \cup {Timer(c.nextId, kind, now + after)},
            !.nextId = @ + 1]

\* clearTimeout(id) / clearInterval(id): no effect on an id that is not pending.
clearTimer(c, id) ==
  [c EXCEPT !.timers = {t \in @ : t.id # id}]

DueTimers(c) == {t \in c.timers : t.due <= now}

\* The pending timer of c that the timer subsystem runs next.
FirstDue(c) ==
  CHOOSE t \in DueTimers(c) :
    \A u \in DueTimers(c) : t.due < u.due \/ (t.due = u.due /\ t.id <= u.id)

Quiescent(c) == DueTimers(c) = {}

\* ------------------------------------------------------ Press Controller
InitController ==
  [longPressTimeoutId |-> Null,
   intervalId         |-> Null,
   isLongPress        |-> FALSE,
   isKeyDown          |-> FALSE,
   timers             |-> {},
   nextId             |-> 1,
   calls              |-> [action |-> 0, onStart |-> 0, onFinish |-> 0, onCancel |-> 0]]

startLongPress(c) ==
  LET c1 == [c EXCEPT !.calls.onStart = @ + 1]
      c2 == schedule(c1, "timeout", delay)
  IN  [c2 EXCEPT !.longPressTimeoutId = c1.nextId]

\* The delay callback invoking the action itself before it starts the
\* repeating timer.
longPressTimeout_fireNow(c, t) ==
  LET c1 == [c EXCEPT !.timers = @ \ {t}, !.isLongPress = TRUE,
                      !.calls.action = @ + 1]
      c2 == schedule(c1, "interval", interval)
  IN  [c2 EXCEPT !.intervalId = c1.nextId]

\* The delay callback starting the repeating timer without setting isLongPress.
longPressTimeout_noFlag(c, t) ==
  LET c1 == [c EXCEPT !.timers = @ \ {t}]
      c2 == schedule(c1, "interval", interval)
  IN  [c2 EXCEPT !.intervalId = c1.nextId]

\* The callback startLongPress hands to setTimeout, run for timer t.
longPressTimeout(c, t) ==
  LET c1 == [c EXCEPT !.timers = @ \ {t}, !.isLongPress = TRUE]
      c2 == schedule(c1, "interval", interval)
  IN  [c2 EXCEPT !.intervalId = c1.nextId]

\* The repeating callback scheduled with setTimeout: it runs once.
intervalTick_once(c, t) ==
  [c EXCEPT !.calls.action = @ + 1, !.timers = @ \ {t}]

\* The callback handed to setInterval, run for timer t; the timer is re-armed.
intervalTick(c, t) ==
  [c EXCEPT !.calls.action = @ + 1,
            !.timers = (@ \ {t}) \cup {Timer(t.id, "interval", now + interval)}]

\* stopLongPress without the clearTimeout call: the handle is dropped, the
\* timer stays pending.
stopLongPress_keepTimeout(c, isCancelled) ==
  LET c1 == IF c.intervalId # Null
              THEN [clearTimer(c, c.intervalId) EXCEPT !.intervalId = Null]
              ELSE c
      c2 == [c1 EXCEPT !.longPressTimeoutId = Null]
      c3 == IF c2.isLongPress THEN [c2 EXCEPT !.calls.onFinish = @ + 1] ELSE c2
      c4 == [c3 EXCEPT !.isLongPress = FALSE]
  IN  IF isCancelled THEN [c4 EXCEPT !.calls.onCancel = @ + 1] ELSE c4

\* stopLongPress invoking onFinish whether or not the press was a long press.
stopLongPress_finishAlways(c, isCancelled) ==
  LET c1 == IF c.intervalId # Null
              THEN [clearTimer(c, c.intervalId) EXCEPT !.intervalId = Null]
              ELSE c
      c2 == IF c1.longPressTimeoutId # Null
              THEN [clearTimer(c1, c1.longPressTimeoutId) EXCEPT !.longPressTimeoutId = Null]
              ELSE c1
      c3 == [c2 EXCEPT !.calls.onFinish = @ + 1]
      c4 == [c3 EXCEPT !.isLongPress = FALSE]
  IN  IF isCancelled THEN [c4 EXCEPT !.calls.onCancel = @ + 1] ELSE c4

stopLongPress(c, isCancelled) ==
  LET c1 == IF c.intervalId # Null
              THEN [clearTimer(c, c.intervalId) EXCEPT !.intervalId = Null]
              ELSE c
      c2 == IF c1.longPressTimeoutId # Null
              THEN [clearTimer(c1, c1.longPressTimeoutId) EXCEPT !.longPressTimeoutId = Null]
              ELSE c1
      c3 == IF c2.isLongPress THEN [c2 EXCEPT !.calls.onFinish = @ + 1] ELSE c2
      c4 == [c3 EXCEPT !.isLongPress = FALSE]
  IN  IF isCancelled THEN [c4 EXCEPT !.calls.onCancel = @ + 1] ELSE c4

\* One executed statement of stopLongPress: the closure state and the
\* aria-pressed attribute right after it.
Step(stmt, c, aria) == [stmt |-> stmt, c |-> c, aria |-> aria]

\* stopLongPress invoking onCancel before it resets isLongPress and the
\* attribute.
stopLongPressSteps_cancelEarly(c, isCancelled, isPointer, aria) ==
  LET c1 == IF c.intervalId # Null
              THEN [clearTimer(c, c.intervalId) EXCEPT !.intervalId = Null]
              ELSE c
      s1 == IF c.intervalId # Null
              THEN << Step("clearInterval", c1, aria) >> ELSE << >>
      c2 == IF c1.longPressTimeoutId # Null
              THEN [clearTimer(c1, c1.longPressTimeoutId) EXCEPT !.longPressTimeoutId = Null]
              ELSE c1
      s2 == IF c1.longPressTimeoutId # Null
              THEN Append(s1, Step("clearTimeout", c2, aria)) ELSE s1
      c3 == IF c2.isLongPress THEN [c2 EXCEPT !.calls.onFinish = @ + 1] ELSE c2
      s3 == IF c2.isLongPress THEN Append(s2, Step("onFinish", c3, aria)) ELSE s2
      c4 == IF isCancelled THEN [c3 EXCEPT !.calls.onCancel = @ + 1] ELSE c3
      s4 == IF isCancelled THEN Append(s3, Step("onCancel", c4, aria)) ELSE s3
      c5 == [c4 EXCEPT !.isLongPress = FALSE]
      s5 == Append(s4, Step("isLongPress", c5, aria))
  IN  IF isPointer THEN Append(s5, Step("setAttribute", c5, "false")) ELSE s5

\* The statements stopLongPress executes, in order, for an event that is a
\* PointerEvent (isPointer) or not, with the state after each.
stopLongPressSteps(c, isCancelled, isPointer, aria) ==
  LET c1 == IF c.intervalId # Null
              THEN [clearTimer(c, c.intervalId) EXCEPT !.intervalId = Null]
              ELSE c
      s1 == IF c.intervalId # Null
              THEN << Step("clearInterval", c1, aria) >> ELSE << >>
      c2 == IF c1.longPressTimeoutId # Null
              THEN [clearTimer(c1, c1.longPressTimeoutId) EXCEPT !.longPressTimeoutId = Null]
              ELSE c1
      s2 == IF c1.longPressTimeoutId # Null
              THEN Append(s1, Step("clearTimeout", c2, aria)) ELSE s1
      c3 == IF c2.isLongPress THEN [c2 EXCEPT !.calls.onFinish = @ + 1] ELSE c2
      s3 == IF c2.isLongPress THEN Append(s2, Step("onFinish", c3, aria)) ELSE s2
      c4 == [c3 EXCEPT !.isLongPress = FALSE]
      s4 == Append(s3, Step("isLongPress", c4, aria))
      a5 == IF isPointer THEN "false" ELSE aria
      s5 == IF isPointer THEN Append(s4, Step("setAttribute", c4, a5)) ELSE s4
      c6 == IF isCancelled THEN [c4 EXCEPT !.calls.onCancel = @ + 1] ELSE c4
  IN  IF isCancelled THEN Append(s5, Step("onCancel", c6, a5)) ELSE s5

\* handleShortPress without the isLongPress test.
handleShortPress_always(c) ==
  stopLongPress([c EXCEPT !.calls.action = @ + 1, !.calls.onFinish = @ + 1], FALSE)

handleShortPress(c) ==
  LET c1 == IF ~c.isLongPress
              THEN [c EXCEPT !.calls.action = @ + 1, !.calls.onFinish = @ + 1]
              ELSE c
  IN  stopLongPress(c1, FALSE)

\* key === 'Enter' || ' ': the second operand is always truthy.
isEnterOrSpace_truthy(key) == TRUE

isEnterOrSpace(key) == key = "Enter" \/ key = " "

\* handleKeyAction without the isKeyDown test on keydown.
handleKeyAction_noRepeatGuard(c, key, type) ==
  IF ~isEnterOrSpace(key) THEN c
  ELSE IF type = "keydown"
    THEN startLongPress([c EXCEPT !.isKeyDown = TRUE])
  ELSE IF type = "keyup"
    THEN handleShortPress([c EXCEPT !.isKeyDown = FALSE])
  ELSE c

handleKeyAction(c, key, type) ==
  IF ~isEnterOrSpace(key) THEN c
  ELSE IF type = "keydown" /\ ~c.isKeyDown
    THEN startLongPress([c EXCEPT !.isKeyDown = TRUE])
  ELSE IF type = "keyup"
    THEN handleShortPress([c EXCEPT !.isKeyDown = FALSE])
  ELSE c

\* The six listeners nagaoshi() registers.
onPointerDown(c) == startLongPress(c)
onPointerUp(c) == handleShortPress(c)
onPointerLeave(c) == stopLongPress(c, TRUE)
onPointerCancel(c) == stopLongPress(c, TRUE)
onKeyDown(c, key) == handleKeyAction(c, key, "keydown")
onKeyUp(c, key) == handleKeyAction(c, key, "keyup")

Listener(type, key, c) ==
  CASE type = "pointerdown"   -> onPointerDown(c)
    [] type = "pointerup"     -> onPointerUp(c)
    [] type = "pointerleave"  -> onPointerLeave(c)
    [] type = "pointercancel" -> onPointerCancel(c)
    [] type = "keydown"       -> onKeyDown(c, key)
    [] type = "keyup"         -> onKeyUp(c, key)

\* setAttribute('aria-pressed', ...) in startLongPress / stopLongPress: only for
\* a PointerEvent, and only when some listener for the event is still attached.
setAriaPressed(type, old) ==
  IF \E o \in Owners : <<type, o>> \in listeners
    THEN CASE type = "pointerdown" -> "true"
           [] type \in {"pointerup", "pointerleave", "pointercancel"} -> "false"
           [] OTHER -> old
    ELSE old

\* The cleanup function leaving the keyup listener attached.
removeListeners_missKeyUp(ls) ==
  ls \ {<<t, "self">> : t \in EventTypes \ {"keyup"}}

\* removeEventListener matching on the event type alone.
removeListeners_byType(ls) ==
  {l \in ls : l[1] \notin EventTypes}

\* removeEventListener(type, listener) for the six listeners of the controller:
\* a listener is removed when both its type and its function match.
removeListeners(ls) == ls \ {<<t, "self">> : t \in EventTypes}

Attached == \E t \in EventTypes : <<t, "self">> \in listeners

\* The states of the press state machine, read off a controller's state.
Phase(c) ==
  IF c.timers = {} /\ ~c.isLongPress THEN "Idle"
  ELSE IF ~c.isLongPress /\ Cardinality(c.timers) = 1
          /\ \A t \in c.timers : t.kind = "timeout" /\ t.id = c.longPressTimeoutId
    THEN "Pressing"
  ELSE IF c.isLongPress /\ Cardinality(c.timers) = 1
          /\ \A t \in c.timers : t.kind = "interval" /\ t.id = c.intervalId
    THEN "LongPress"
  ELSE "Overlap"

\* ------------------------------------------------------------ observation
\* hist records, for the last handler that ran on a controller, what it was and
\* what the controller looked like before it; it never feeds back into ctl.
NoCalls == [action |-> 0, onStart |-> 0, onFinish |-> 0, onCancel |-> 0]

InitHist ==
  [last    |-> "none",    \* the last handler that ran: start, release, cancel
   phase0  |-> "Idle",    \* Phase before that handler
   pre     |-> NoCalls,   \* calls before that handler
   story   |-> "none",    \* held: a press started from Idle and nothing else was
                          \* handled since; released / cancelled: and then ended
   src     |-> "none",    \* pointer or key: what started the press of the story
   t0      |-> 0,         \* the clock when the press of the story started
   mark    |-> NoCalls,   \* calls before the press of the story started
   guard   |-> -1,        \* action count when a LongPress was cancelled, until
                          \* the next press start; -1 otherwise
   ignored |-> FALSE,     \* an event was dispatched after the cleanup function ran
   noop    |-> "none",    \* the last event ran no handler body: "repeat" (an
                          \* activation key-down while isKeyDown) or "otherkey"
   dcalls  |-> NoCalls]   \* calls when the cleanup function first ran

HandlerKind(type, key, c) ==
  CASE type = "pointerdown" -> "start"
    [] type = "pointerup" -> "release"
    [] type \in {"pointerleave", "pointercancel"} -> "cancel"
    [] type = "keydown" /\ isEnterOrSpace(key) /\ ~c.isKeyDown -> "start"
    [] type = "keyup" /\ isEnterOrSpace(key) -> "release"
    [] OTHER -> "none"

Source(type) == IF type \in {"keydown", "keyup"} THEN "key" ELSE "pointer"

Observe(type, key, c, h) ==
  LET kind == HandlerKind(type, key, c)
      h1 == [h EXCEPT !.last = kind, !.phase0 = Phase(c), !.pre = c.calls,
                      !.noop = "none"]
      off == [h1 EXCEPT !.story = "none", !.src = "none", !.t0 = 0, !.mark = NoCalls]
  IN  CASE kind = "none" ->
             [h EXCEPT !.noop = IF isEnterOrSpace(key) THEN "repeat" ELSE "otherkey"]
        [] kind = "start" ->
             IF Phase(c) = "Idle"
               THEN [h1 EXCEPT !.story = "held", !.src = Source(type), !.t0 = now,
                               !.mark = c.calls, !.guard = -1]
               ELSE [off EXCEPT !.guard = -1]
        [] kind = "release" ->
             IF h.story = "held" /\ h.src = Source(type)
               THEN [h1 EXCEPT !.story = "released"]
               ELSE off
        [] kind = "cancel" ->
             LET g == IF Phase(c) = "LongPress" THEN c.calls.action ELSE h.guard
             IN  IF h.story = "held"
                   THEN [h1 EXCEPT !.story = "cancelled", !.guard = g]
                   ELSE [off EXCEPT !.guard = g]

\* ------------------------------------------------------ ambient detector
\* The document under the ambient detector: a button holding a span, a link
\* and a div, the last three without children.  Pointer events target any of
\* them.
Elements == {"button", "span", "link", "div"}
Parent(e) == IF e = "span" THEN "button" ELSE "document"

\* The elements an event dispatched on e passes on its way up to the document.
RECURSIVE Path(_)
Path(e) == IF e = "document" THEN {} ELSE {e} \cup Path(Parent(e))

\* element.matches(string): the element itself is one of the listed kinds.
matches(e) == e \in {"button", "link"}

\* findInteractiveElement(element): the element itself when it matches, else
\* null ("none").
findInteractiveElement(e) == IF matches(e) THEN e ELSE "none"

\* One call of handleLongPressDetection: its element, its timer variable and
\* whether its three listeners are on the element.
Watch(e) == [element |-> e, timer |-> Null, attached |-> FALSE]

InitAmbient ==
  [watches  |-> << >>,      \* the handleLongPressDetection closures, in call order
   timers   |-> {},         \* pending setTimeout timers: [id, watch, due]
   nextId   |-> 1,
   notified |-> [e \in Elements |-> 0]]   \* 'nagaoshi' events dispatched on e

\* clearLongPressTimer doing nothing.
clearLongPressTimer_noop(a, i) == a

\* clearLongPressTimer of watch i: timer && clearTimeout(timer).
clearLongPressTimer(a, i) ==
  IF a.watches[i].timer # Null
    THEN [a EXCEPT !.timers = {t \in @ : t.id # a.watches[i].timer}]
    ELSE a

\* startLongPressTimer of watch i.
startLongPressTimer(a, i) ==
  LET a1 == IF a.watches[i].timer # Null
              THEN [a EXCEPT !.timers = {t \in @ : t.id # a.watches[i].timer}]
              ELSE a
  IN  [a1 EXCEPT !.timers = @ \cup {[id |-> a1.nextId, watch |-> i,
                                     due |-> now + DEFAULT_DELAY]},
                 !.watches[i].timer = a1.nextId,
                 !.nextId = @ + 1]

\* The timer callback dispatching the event without removing the listeners.
ambientTimeout_keepListeners(a, t) ==
  [a EXCEPT !.timers = @ \ {t},
            !.notified[a.watches[t.watch].element] = @ + 1]

\* The callback startLongPressTimer hands to setTimeout, run for timer t.
ambientTimeout(a, t) ==
  [a EXCEPT !.timers = @ \ {t},
            !.notified[a.watches[t.watch].element] = @ + 1,
            !.watches[t.watch].attached = FALSE]

handleLongPressDetection(a, e) ==
  IF e = "none" THEN a
  ELSE LET i  == Len(a.watches) + 1
           a1 == [a EXCEPT !.watches = Append(@, Watch(e))]
           a2 == startLongPressTimer(a1, i)
       IN  [a2 EXCEPT !.watches[i].attached = TRUE]

\* The watches whose listeners run for an event that passes the elements es.
ListeningOn(a, es) ==
  {i \in 1..Len(a.watches) : a.watches[i].attached /\ a.watches[i].element \in es}

\* The element listeners of the watches ws run, in registration order.
RECURSIVE runStart(_, _)
runStart(a, ws) ==
  IF ws = {} THEN a
  ELSE LET i == CHOOSE j \in ws : \A k \in ws : j <= k
       IN  runStart(startLongPressTimer(a, i), ws \ {i})

RECURSIVE runClear(_, _)
runClear(a, ws) ==
  IF ws = {} THEN a
  ELSE LET i == CHOOSE j \in ws : \A k \in ws : j <= k
       IN  runClear(clearLongPressTimer(a, i), ws \ {i})

\* The document's pointerdown listener.
documentPointerDown(a, target) ==
  handleLongPressDetection(a, findInteractiveElement(target))

\* A pointerdown on target: it bubbles through the element listeners on its
\* path, then reaches the document listener.
ambientPointerDown(a, target) ==
  documentPointerDown(runStart(a, ListeningOn(a, Path(target))), target)

\* A pointerup on target bubbles; a pointerleave does not.
ambientPointerUp(a, target) == runClear(a, ListeningOn(a, Path(target)))
ambientPointerLeave(a, target) == runClear(a, ListeningOn(a, {target}))

PendingOn(a, e) == {t \in a.timers : a.watches[t.watch].element = e}
AmbientDue(a) == {t \in a.timers : t.due <= now}
AmbientFirstDue(a) ==
  CHOOSE t \in AmbientDue(a) :
    \A u \in AmbientDue(a) : t.due < u.due \/ (t.due = u.due /\ t.id <= u.id)

InitAmbHist ==
  [last     |-> "none",   \* the last step on amb: down, release, fired
   event    |-> "none",   \* the last pointer event: down, release
   target   |-> "none",   \* the target of the last pointer event
   received |-> {},       \* the elements the last pointer event passed
   held     |-> "none",   \* the matching element the last pointer event was a
                          \* pointerdown on
   t0       |-> 0,        \* the clock at the last pointer event
   mark     |-> [e \in Elements |-> 0],  \* notified at the last pointer event
   preLen   |-> 0,        \* number of watches before the last pointer event
   preTimers |-> {},      \* pending timers before the last pointer event
   cleared  |-> {},       \* elements a release took a pending timer from
   released |-> {},       \* elements that have received a release
   fired    |-> {},       \* watches whose timer callback has run
   twice    |-> {}]       \* watches whose timer callback has run more than once

ObserveAmbient(kind, target, es, a, h) ==
  [h EXCEPT !.last = kind, !.event = kind, !.target = target, !.received = es,
            !.held = IF kind = "down" /\ matches(target) THEN target ELSE "none",
            !.t0 = now, !.mark = a.notified, !.preLen = Len(a.watches),
            !.preTimers = a.timers,
            !.cleared = IF kind = "release"
                          THEN @ \cup {e \in es : PendingOn(a, e) # {}} ELSE @,
            !.released = IF kind = "release" THEN @ \cup es ELSE @]

\* ---------------------------------------------------------------- actions
Init ==
  /\ now = 0
  /\ options \in {[delay |-> Given(d), interval |-> Given(i)] :
                    d \in Delays, i \in Intervals}
  /\ delay = withDefault(options.delay, DEFAULT_DELAY)
  /\ interval = withDefault(options.interval, DEFAULT_INTERVAL)
  /\ \E os \in {{"self"}, Owners} : listeners = EventTypes \X os
  /\ ariaPressed = "unset"
  /\ ctl = InitController
  /\ hist = InitHist
  /\ nEvents = 0
  /\ disposeCalls = 0
  /\ amb = InitAmbient
  /\ ambHist = InitAmbHist

\* element.dispatchEvent(e): every listener registered for e.type runs.
Dispatch(type, key) ==
  /\ nEvents' = nEvents + 1
  /\ ctl' = IF <<type, "self">> \in listeners THEN Listener(type, key, ctl) ELSE ctl
  /\ hist' = LET h == IF <<type, "self">> \in listeners
                         THEN Observe(type, key, ctl, hist)
                         ELSE hist
              IN  [h EXCEPT !.ignored = @ \/ disposeCalls > 0]
  /\ ariaPressed' = setAriaPressed(type, ariaPressed)
  /\ UNCHANGED <<now, options, delay, interval, listeners, disposeCalls>>
  /\ UNCHANGED ambVars

PointerDown ==
  /\ nEvents < MaxEvents
  /\ Dispatch("pointerdown", "none")

PointerUp ==
  /\ nEvents < MaxEvents
  /\ Dispatch("pointerup", "none")

PointerLeave ==
  /\ nEvents < MaxEvents
  /\ Dispatch("pointerleave", "none")

PointerCancel ==
  /\ nEvents < MaxEvents
  /\ Dispatch("pointercancel", "none")

KeyDown ==
  /\ nEvents < MaxEvents
  /\ \E key \in Keys : Dispatch("keydown", key)

KeyUp ==
  /\ nEvents < MaxEvents
  /\ \E key \in Keys : Dispatch("keyup", key)

\* The timer subsystem runs the delay callback.
FireTimeout ==
  /\ ~Quiescent(ctl)
  /\ FirstDue(ctl).kind = "timeout"
  /\ ctl' = longPressTimeout(ctl, FirstDue(ctl))
  /\ UNCHANGED <<now, options, delay, interval, listeners, ariaPressed, hist, nEvents, disposeCalls>>
  /\ UNCHANGED ambVars

\* The timer subsystem runs the repeating callback.
FireInterval ==
  /\ ~Quiescent(ctl)
  /\ FirstDue(ctl).kind = "interval"
  /\ ctl' = intervalTick(ctl, FirstDue(ctl))
  /\ UNCHANGED <<now, options, delay, interval, listeners, ariaPressed, hist, nEvents, disposeCalls>>
  /\ UNCHANGED ambVars

\* Time passes; every timer that is due has run.
Tick ==
  /\ now < MaxTime
  /\ Quiescent(ctl)
  /\ now' = now + 1
  /\ UNCHANGED <<options, delay, interval, listeners, ariaPressed, ctl, hist, nEvents, disposeCalls>>
  /\ UNCHANGED ambVars

\* The cleanup function nagaoshi() returned.
Dispose ==
  /\ disposeCalls < MaxDispose
  /\ disposeCalls' = disposeCalls + 1
  /\ listeners' = removeListeners(listeners)
  /\ hist' = IF disposeCalls = 0 THEN [hist EXCEPT !.dcalls = ctl.calls] ELSE hist
  /\ UNCHANGED <<now, options, delay, interval, ariaPressed, ctl, nEvents>>
  /\ UNCHANGED ambVars

Next ==
  \/ PointerDown
  \/ PointerUp
  \/ PointerLeave
  \/ PointerCancel
  \/ KeyDown
  \/ KeyUp
  \/ FireTimeout
  \/ FireInterval
  \/ Tick
  \/ Dispose

Spec == Init /\ [][Next]_vars

\* ------------------------------------------- controllers of any options
\* nagaoshi(element, action, options) with interval and delay each absent or
\* supplied, on an element no other controller is attached to.
InitDefaults ==
  /\ now = 0
  /\ options \in [delay : OptionalDelays, interval : OptionalIntervals]
  /\ delay = withDefault(options.delay, DEFAULT_DELAY)
  /\ interval = withDefault(options.interval, DEFAULT_INTERVAL)
  /\ listeners = EventTypes \X {"self"}
  /\ ariaPressed = "unset"
  /\ ctl = InitController
  /\ hist = InitHist
  /\ nEvents = 0
  /\ disposeCalls = 0
  /\ amb = InitAmbient
  /\ ambHist = InitAmbHist

\* Time passes until the next pending timer is due.
Elapse ==
  /\ Quiescent(ctl)
  /\ ctl.timers # {}
  /\ \E t \in ctl.timers :
       /\ \A u \in ctl.timers : t.due <= u.due
       /\ now' = t.due
  /\ UNCHANGED <<options, delay, interval, listeners, ariaPressed, ctl, hist, nEvents, disposeCalls>>
  /\ UNCHANGED ambVars

\* The repeating callback, followed for MaxActions invocations of the action.
FireIntervalCapped ==
  /\ ctl.calls.action < MaxActions
  /\ FireInterval

NextDefaults ==
  \/ PointerDown
  \/ PointerUp
  \/ FireTimeout
  \/ FireIntervalCapped
  \/ Elapse

SpecDefaults == InitDefaults /\ [][NextDefaults]_vars

\* ------------------------------------------------ the ambient detector runs
\* The module is loaded: the document listener is registered, no element has
\* been pressed yet.
InitAmbientDetector ==
  /\ now = 0
  /\ options = [delay |-> Undefined, interval |-> Undefined]
  /\ delay = withDefault(options.delay, DEFAULT_DELAY)
  /\ interval = withDefault(options.interval, DEFAULT_INTERVAL)
  /\ listeners = {}
  /\ ariaPressed = "unset"
  /\ ctl = InitController
  /\ hist = InitHist
  /\ nEvents = 0
  /\ disposeCalls = 0
  /\ amb = InitAmbient
  /\ ambHist = InitAmbHist

AmbientPointerDown ==
  /\ nEvents < MaxEvents
  /\ \E target \in Elements :
       /\ amb' = ambientPointerDown(amb, target)
       /\ ambHist' = ObserveAmbient("down", target, Path(target), amb, ambHist)
  /\ nEvents' = nEvents + 1
  /\ UNCHANGED now
  /\ UNCHANGED ctlVars

AmbientPointerUp ==
  /\ nEvents < MaxEvents
  /\ \E target \in Elements :
       /\ amb' = ambientPointerUp(amb, target)
       /\ ambHist' = ObserveAmbient("release", target, Path(target), amb, ambHist)
  /\ nEvents' = nEvents + 1
  /\ UNCHANGED now
  /\ UNCHANGED ctlVars

AmbientPointerLeave ==
  /\ nEvents < MaxEvents
  /\ \E target \in Elements :
       /\ amb' = ambientPointerLeave(amb, target)
       /\ ambHist' = ObserveAmbient("release", target, {target}, amb, ambHist)
  /\ nEvents' = nEvents + 1
  /\ UNCHANGED now
  /\ UNCHANGED ctlVars

\* The timer subsystem runs the callback of a watch's timer.
AmbientFire ==
  /\ AmbientDue(amb) # {}
  /\ amb' = ambientTimeout(amb, AmbientFirstDue(amb))
  /\ ambHist' = [ambHist EXCEPT
                   !.last = "fired",
                   !.fired = @ \cup {AmbientFirstDue(amb).watch},
                   !.twice = @ \cup ({AmbientFirstDue(amb).watch} \cap ambHist.fired)]
  /\ UNCHANGED <<now, nEvents>>
  /\ UNCHANGED ctlVars

\* Time passes by one unit; every timer that is due has run.
AmbientTick ==
  /\ now < MaxTime
  /\ AmbientDue(amb) = {}
  /\ now' = now + 1
  /\ UNCHANGED <<nEvents, amb, ambHist>>
  /\ UNCHANGED ctlVars

\* Time passes until the next pending timer of a watch is due.
AmbientElapse ==
  /\ AmbientDue(amb) = {}
  /\ amb.timers # {}
  /\ \E t \in amb.timers :
       /\ \A u \in amb.timers : t.due <= u.due
       /\ now' = t.due
  /\ UNCHANGED <<nEvents, amb, ambHist>>
  /\ UNCHANGED ctlVars

NextAmbient ==
  \/ AmbientPointerDown
  \/ AmbientPointerUp
  \/ AmbientPointerLeave
  \/ AmbientFire
  \/ AmbientTick
  \/ AmbientElapse

SpecAmbient == InitAmbientDetector /\ [][NextAmbient]_vars

\* ------------------------------------------------------------ properties
Calls(a, s, f, c) == [action |-> a, onStart |-> s, onFinish |-> f, onCancel |-> c]

\* C1: a press that starts from Idle and is released (pointer-up after
\* pointer-down, key-up after key-down) while the delay timer is still pending,
\* with nothing else handled in between, has invoked onStart once, the action
\* once and onFinish once, never onCancel, and leaves no timer that could fire.
C1_ShortPress ==
  (hist.story = "released" /\ hist.phase0 = "Pressing") =>
    /\ ctl.calls = Calls(hist.mark.action + 1, hist.mark.onStart + 1,
                         hist.mark.onFinish + 1, hist.mark.onCancel)
    /\ ctl.calls.onStart = hist.pre.onStart
    /\ ctl.timers = {}
    /\ ~ctl.isLongPress

C1_Witness ==
  /\ hist.story = "released"
  /\ hist.phase0 = "Pressing"
  /\ now >= hist.t0 + delay
  /\ delay > 0

\* C2 as the spec states it: in a press held from Idle, once the timers due at
\* delay + k * interval after the press start have run, the action has been
\* invoked k + 1 times (the first time at delay).
C2_FirstTickAtDelay ==
  (hist.story = "held" /\ Quiescent(ctl)) =>
    \A k \in 0..MaxTime :
      now - hist.t0 = delay + k * interval =>
        ctl.calls.action = hist.mark.action + k + 1

\* C2 amended: in a press held from Idle the n-th invocation of the action
\* happens at delay + n * interval after the press start, n = 1, 2, ...: never
\* earlier, and no later once the due timers have run.
C2_FirstTickAfterInterval ==
  hist.story = "held" =>
    LET n == ctl.calls.action - hist.mark.action
        e == now - hist.t0
    IN  /\ n >= 0
        /\ n >= 1 => delay + n * interval <= e
        /\ Quiescent(ctl) => e < delay + (n + 1) * interval

C2_Witness ==
  /\ hist.story = "held"
  /\ ctl.calls.action = hist.mark.action + 1
  /\ now = hist.t0 + delay + interval
  /\ delay > 0

\* C3: after a pointer-down from Idle that is held, once the timers due at
\* D + k * I after the pointer-down have run, the action has been invoked
\* exactly k times (0 at D, 1 at D + I, 2 at D + 2 * I).
C3_TestCadence ==
  (hist.story = "held" /\ hist.src = "pointer" /\ Quiescent(ctl)) =>
    \A k \in 0..MaxTime :
      now - hist.t0 = delay + k * interval =>
        ctl.calls.action = hist.mark.action + k

C3_Witness ==
  /\ hist.story = "held"
  /\ hist.src = "pointer"
  /\ Quiescent(ctl)
  /\ now - hist.t0 = delay + 2 * interval
  /\ ctl.calls.action = hist.mark.action + 2
  /\ interval > 1

\* C4: a pointer-up or activation key-up handled in LongPress clears the
\* repeating timer, invokes onFinish once and does not invoke the action; and
\* onFinish is not invoked while the press is held.
C4_LongPressRelease ==
  /\ (hist.last = "release" /\ hist.phase0 = "LongPress") =>
       /\ ctl.timers = {}
       /\ ctl.intervalId = Null
       /\ ctl.calls.onFinish = hist.pre.onFinish + 1
       /\ ctl.calls.action = hist.pre.action
  /\ hist.story = "held" => ctl.calls.onFinish = hist.mark.onFinish
  /\ (hist.story = "released" /\ hist.phase0 = "LongPress") =>
       ctl.calls.onFinish = hist.mark.onFinish + 1

C4_Witness ==
  /\ hist.story = "released"
  /\ hist.phase0 = "LongPress"
  /\ ctl.calls.action > hist.mark.action
  /\ ctl.calls.onFinish = hist.mark.onFinish + 1

\* C5: a pointer-leave or pointer-cancel handled in Pressing invokes neither the
\* action nor onFinish, invokes onCancel once and clears the delay timer, so no
\* timer is left that could fire.
C5_CancelBeforeDelay ==
  (hist.last = "cancel" /\ hist.phase0 = "Pressing") =>
    /\ ctl.calls = Calls(hist.pre.action, hist.pre.onStart,
                         hist.pre.onFinish, hist.pre.onCancel + 1)
    /\ ctl.timers = {}
    /\ ctl.longPressTimeoutId = Null
    /\ ~ctl.isLongPress

C5_Witness ==
  /\ hist.story = "cancelled"
  /\ hist.phase0 = "Pressing"
  /\ now >= hist.t0 + delay + interval
  /\ ctl.calls.onCancel = hist.mark.onCancel + 1

\* C6: a pointer-leave or pointer-cancel handled in LongPress clears the
\* repeating timer, invokes onFinish once and onCancel once, and from then until
\* the next press start the action is not invoked again.
C6_CancelInLongPress ==
  /\ (hist.last = "cancel" /\ hist.phase0 = "LongPress") =>
       /\ ctl.timers = {}
       /\ ctl.intervalId = Null
       /\ ctl.calls.onFinish = hist.pre.onFinish + 1
       /\ ctl.calls.onCancel = hist.pre.onCancel + 1
  /\ hist.guard # -1 => ctl.calls.action = hist.guard

\* C7: after a stop handler (pointer-up, pointer-leave, pointer-cancel,
\* activation key-up) has returned, and until the next press start, the
\* controller has no pending delay timer and no running repeating timer.
C7_NoTimerAfterStop ==
  hist.last \in {"release", "cancel"} => ctl.timers = {}

\* C8: once the cleanup function has run, the controller has no pending timer
\* and invokes neither the action nor a callback again.
C8_DisposeLeavesNothing ==
  disposeCalls > 0 => (ctl.timers = {} /\ ctl.calls = hist.dcalls)

\* C9: once the cleanup function has run, dispatching a tracked input event
\* leaves the controller's state unchanged (handles, isLongPress, isKeyDown,
\* timers, invocation counts), and leaves aria-pressed unchanged unless a
\* listener of another nagaoshi() call on the element handles the event.
C9_EventsAfterDisposeInert ==
  [][(disposeCalls > 0 /\ nEvents' # nEvents) =>
       /\ ctl' = ctl
       /\ listeners' = listeners
       /\ (\A l \in listeners : l[2] = "self") => ariaPressed' = ariaPressed]_vars

C9_Witness ==
  /\ disposeCalls > 0
  /\ hist.ignored
  /\ ctl.timers # {}
  /\ \A l \in listeners : l[2] # "other"

\* C10: the cleanup function never removes a listener of another nagaoshi()
\* call on the element, and a second or later call of it changes neither the
\* listener list nor the controller's state.
C10_DisposerIdempotent ==
  [][/\ \A l \in listeners : l[2] = "other" => l \in listeners'
     /\ (disposeCalls >= 1 /\ disposeCalls' # disposeCalls) =>
          (listeners' = listeners /\ ctl' = ctl /\ ariaPressed' = ariaPressed)]_vars

C10_Witness ==
  /\ disposeCalls >= 2
  /\ ~Attached
  /\ \A t \in EventTypes : <<t, "other">> \in listeners

\* C11: a press started from Idle by an activation key-down and ended by the
\* activation key-up, whatever the time in between, has invoked the action at
\* least once and onFinish exactly once when the key-up handler has returned.
C11_KeyPressActivates ==
  (hist.story = "released" /\ hist.src = "key") =>
    /\ ctl.calls.action >= hist.mark.action + 1
    /\ ctl.calls.onFinish = hist.mark.onFinish + 1

\* C13: whenever the controller is at rest (no timer pending, isLongPress
\* false) after pointer and key events, aria-pressed is not "true".
C13_PressedFlagTracksPress ==
  (disposeCalls = 0 /\ Phase(ctl) = "Idle") => ariaPressed # "true"

\* C19: in a press held from Idle, once the delay callback has run at most one
\* of longPressTimeoutId and intervalId is non-null; and at rest both are null.
C19_TimerHandles ==
  /\ (hist.story = "held" /\ ctl.isLongPress) =>
       (ctl.longPressTimeoutId = Null \/ ctl.intervalId = Null)
  /\ Phase(ctl) = "Idle" =>
       (ctl.longPressTimeoutId = Null /\ ctl.intervalId = Null)

\* C20: between handlers and timer callbacks, isLongPress is true exactly when
\* intervalId is non-null, overlapping press starts included.
C20_LongPressIffInterval ==
  ctl.isLongPress <=> (ctl.intervalId # Null)

C20_Witness ==
  /\ ctl.isLongPress
  /\ ctl.intervalId # Null
  /\ hist.last = "release"

\* The activation keys the specification names: Enter and Space.
ActivationKeys == {"Enter", " "}

\* C12: while isKeyDown is true an activation key-down changes no controller
\* state, invokes nothing and creates no timer; and isKeyDown is reset, so that
\* a key-down can start a press again, only by an activation key-up.
C12_KeyRepeatSuppressed ==
  [][/\ (ctl.isKeyDown /\ Attached
           /\ \E key \in ActivationKeys : Dispatch("keydown", key)) =>
          (ctl' = ctl /\ ariaPressed' = ariaPressed)
     /\ (ctl.isKeyDown /\ ~ctl'.isKeyDown) =>
          \E key \in ActivationKeys : Dispatch("keyup", key)]_vars

C12_Witness ==
  /\ hist.noop = "repeat"
  /\ ctl.isKeyDown
  /\ ctl.calls.onStart = 1
  /\ ctl.timers # {}

\* C17: a key-down or key-up of a key that is neither Enter nor Space changes
\* no controller state (handles, isLongPress, isKeyDown, timers, invocation
\* counts) and leaves aria-pressed unchanged.
C17_OtherKeysIgnored ==
  [][(\E key \in Keys \ ActivationKeys, type \in {"keydown", "keyup"} :
        Dispatch(type, key)) =>
       (ctl' = ctl /\ ariaPressed' = ariaPressed)]_vars

C17_Witness ==
  /\ hist.noop = "otherkey"
  /\ Attached
  /\ Phase(ctl) = "LongPress"

\* C18: every timer a step creates or re-arms is due after exactly the value
\* the options determine: the delay timer after 1000 when options has no delay
\* and after options.delay when it has one (zero and negative included), the
\* repeating timer after 75 when options has no interval and after
\* options.interval when it has one.
C18_Defaults ==
  [][\A t \in ctl'.timers \ ctl.timers :
       LET o == IF t.kind = "timeout" THEN options.delay ELSE options.interval
           d == IF t.kind = "timeout" THEN 1000 ELSE 75
       IN  /\ ~o.given => t.due = now + d
           /\ o.given => t.due = now + o.value]_vars

C18_Witness ==
  /\ ~options.delay.given
  /\ options.interval.given
  /\ options.interval.value <= 0
  /\ hist.story = "held"
  /\ now = hist.t0 + 1000
  /\ ctl.calls.action = hist.mark.action + MaxActions

\* C14: after any history of pointer events, while a pointerdown on a matching
\* element is held (no pointer event since), no 'nagaoshi' event is dispatched
\* on the element before 1000 time units have passed, and once they have
\* passed and the due timers have run exactly one has been dispatched on it.
C14_OneNotificationPerHold ==
  ambHist.held # "none" =>
    LET n == amb.notified[ambHist.held] - ambHist.mark[ambHist.held]
    IN  /\ now < ambHist.t0 + DEFAULT_DELAY => n = 0
        /\ (now >= ambHist.t0 + DEFAULT_DELAY /\ AmbientDue(amb) = {}) => n = 1

\* C15: once an element has received a pointerup or pointerleave, and until
\* the next pointer event, no timer of a watch on it is pending and no
\* 'nagaoshi' event is dispatched on it; a pointerdown on a matching element
\* that has received a release before starts a timer that is pending until it
\* dispatches a 'nagaoshi' event on the element.
C15_ReleaseCancels ==
  /\ ambHist.event = "release" =>
       \A e \in ambHist.received :
         /\ PendingOn(amb, e) = {}
         /\ amb.notified[e] = ambHist.mark[e]
  /\ (ambHist.held # "none" /\ ambHist.held \in ambHist.released) =>
       \/ PendingOn(amb, ambHist.held) # {}
       \/ amb.notified[ambHist.held] > ambHist.mark[ambHist.held]

C15_Witness ==
  /\ ambHist.held \in ambHist.cleared
  /\ amb.notified[ambHist.held] > ambHist.mark[ambHist.held]

\* The nearest ancestor-or-self of e that matches, "none" when there is none.
RECURSIVE Nearest(_)
Nearest(e) ==
  IF e = "document" THEN "none"
  ELSE IF matches(e) THEN e ELSE Nearest(Parent(e))

\* C16: right after a pointerdown, a new watch is on the nearest
\* ancestor-or-self of the target that matches, with its timer pending; when
\* none matches no watch was added and no timer was started.
C16_NearestAncestorWatched ==
  ambHist.last = "down" =>
    IF Nearest(ambHist.target) # "none"
      THEN /\ Len(amb.watches) = ambHist.preLen + 1
           /\ amb.watches[Len(amb.watches)].element = Nearest(ambHist.target)
           /\ amb.watches[Len(amb.watches)].attached
           /\ \E t \in amb.timers : t.watch = Len(amb.watches)
      ELSE /\ Len(amb.watches) = ambHist.preLen
           /\ amb.timers = ambHist.preTimers

\* C21: in every reachable state each element has at most one pending timer
\* of the ambient detector and at most one watch whose listeners are on it.
C21_OneWatchPerElement ==
  \A e \in Elements :
    /\ Cardinality(PendingOn(amb, e)) <= 1
    /\ Cardinality(ListeningOn(amb, {e})) <= 1

\* C22: a watch whose timer callback has run has run it once, has dispatched
\* one 'nagaoshi' event on its element, has none of its listeners on the
\* element and has no pending timer, whatever events followed.
C22_WatchOneShot ==
  /\ ambHist.twice = {}
  /\ \A i \in ambHist.fired :
       /\ ~amb.watches[i].attached
       /\ \A t \in amb.timers : t.watch # i
  /\ \A e \in Elements :
       amb.notified[e] = Cardinality({i \in ambHist.fired : amb.watches[i].element = e})

C22_Witness ==
  /\ ambHist.last = "down"
  /\ \E i \in ambHist.fired : amb.watches[i].element = ambHist.target
  /\ PendingOn(amb, ambHist.target) # {}

\* C23: every pending timer of the controller is the one longPressTimeoutId
\* (a delay timer) or intervalId (a repeating timer) refers to, so at most one
\* of each kind is pending.
C23_NoOrphanedTimers ==
  \A t \in ctl.timers :
    /\ t.kind = "timeout" => t.id = ctl.longPressTimeoutId
    /\ t.kind = "interval" => t.id = ctl.intervalId

\* C24: a pointer-up or activation key-up handled while the controller is at
\* rest invokes neither the action nor onFinish, and onFinish has never been
\* invoked more often than onStart.
C24_ReleaseAtRestInert ==
  /\ (hist.last = "release" /\ hist.phase0 = "Idle") =>
       /\ ctl.calls.action = hist.pre.action
       /\ ctl.calls.onFinish = hist.pre.onFinish
  /\ ctl.calls.onFinish <= ctl.calls.onStart

\* C25: a pointer-leave or pointer-cancel handled while the controller is at
\* rest invokes no callback, and onCancel has never been invoked more often
\* than onStart.
C25_CancelAtRestInert ==
  /\ (hist.last = "cancel" /\ hist.phase0 = "Idle") => ctl.calls = hist.pre
  /\ ctl.calls.onCancel <= ctl.calls.onStart

IsTimerStatement(st) == st.stmt \in {"clearInterval", "clearTimeout"}

\* C26: whenever the controller is in LongPress with its listeners attached, a
\* pointer-leave or pointer-cancel runs stopLongPress as: the timer clearing
\* statements, then onFinish, then isLongPress = false, then the attribute set
\* to "false", then onCancel; no timer is pending and both handles are null
\* when onFinish is invoked; onCancel is invoked with isLongPress false, both
\* handles null and the attribute "false"; and the handler leaves the state of
\* the last statement.
C26_CancelOrder ==
  (Phase(ctl) = "LongPress" /\ Attached) =>
    \A type \in {"pointerleave", "pointercancel"} :
      LET st   == stopLongPressSteps(ctl, TRUE, TRUE, ariaPressed)
          rest == SelectSeq(st, LAMBDA x : ~IsTimerStatement(x))
          n    == Len(st) - Len(rest)
      IN  /\ n >= 1
          /\ \A i \in 1..n : IsTimerStatement(st[i])
          /\ [i \in 1..Len(rest) |-> rest[i].stmt] =
               <<"onFinish", "isLongPress", "setAttribute", "onCancel">>
          /\ st[n].c.timers = {}
          /\ st[n].c.longPressTimeoutId = Null /\ st[n].c.intervalId = Null
          /\ rest[1].c.calls.onFinish = ctl.calls.onFinish + 1
          /\ ~rest[3].c.isLongPress
          /\ rest[3].c.longPressTimeoutId = Null /\ rest[3].c.intervalId = Null
          /\ rest[3].c.timers = {}
          /\ rest[3].aria = "false"
          /\ rest[3].c.calls.onCancel = ctl.calls.onCancel
          /\ rest[4].c.calls.onCancel = ctl.calls.onCancel + 1
          /\ st[Len(st)].c = Listener(type, "none", ctl)
          /\ st[Len(st)].aria = setAriaPressed(type, ariaPressed)

C26_Witness ==
  /\ hist.last = "cancel"
  /\ hist.phase0 = "LongPress"
  /\ ctl.calls.onCancel = hist.pre.onCancel + 1
  /\ ctl.calls.onFinish = hist.pre.onFinish + 1
  /\ ariaPressed = "false"

====
